---- MODULE Spec2Model ----
(***************************************************************************)
(* Model of the LEIA evaluation harness: evaluate.py (the per-task loop    *)
(* run by every worker process) and leia/tasks/miaqa.py (answer            *)
(* normalisation, scoring, dataset filters, request construction and the   *)
(* lazily built morphological tagger).                                     *)
(*                                                                         *)
(* A Python str is a sequence of characters; a character is a one-element  *)
(* string, and a non-ASCII character is written by its code point          *)
(* ("U+5E74").                                                             *)
(***************************************************************************)
EXTENDS Integers, Sequences, FiniteSets

\* ------------------------------------------------------------------------
\* Bounds of the model
\* ------------------------------------------------------------------------
MaxStrLen ==
  3
MaxProcs ==
  2
MaxTasks ==
  2
MaxExamples ==
  2
MaxFields ==
  2
MaxAnswers ==
  2
MaxCalls ==
  3
MaxRows ==
  3
MaxEval ==
  2

\* ------------------------------------------------------------------------
\* Characters
\* ------------------------------------------------------------------------
NEN == "U+5E74"
SAI == "U+6B73"
NIN == "U+4EBA"
NYEON == "U+B144"
NAKAGURO == "U+30FB"
TOUTEN == "U+3001"

ascii_uppercase == <<"A","B","C","D","E","F","G","H","I","J","K","L","M",
                     "N","O","P","Q","R","S","T","U","V","W","X","Y","Z">>
ascii_lowercase == <<"a","b","c","d","e","f","g","h","i","j","k","l","m",
                     "n","o","p","q","r","s","t","u","v","w","x","y","z">>

\* string.punctuation (the quote, the backslash and the backtick by code point)
punctuation == {"!", "U+0022", "#", "$", "%", "&", "'", "(", ")", "*", "+", ",",
                "-", ".", "/", ":", ";", "<", "=", ">", "?", "@", "[", "U+005C",
                "]", "^", "_", "U+0060", "{", "|", "}", "~"}

\* the characters str.split() with no argument splits on
whitespace == {" ", "\t", "\n", "\r", "\f", "U+3000"}

\* ------------------------------------------------------------------------
\* str methods used by the program
\* ------------------------------------------------------------------------
lower_char(ch) ==
  IF \E i \in 1..26 : ascii_uppercase[i] = ch
    THEN ascii_lowercase[CHOOSE i \in 1..26 : ascii_uppercase[i] = ch]
    ELSE ch

\* str.lower()
lower(text) == [i \in 1..Len(text) |-> lower_char(text[i])]

\* str.replace(old, new) for a one-character old
RECURSIVE replace(_, _, _)
replace(text, old, new) ==
  IF text = <<>> THEN <<>>
  ELSE (IF Head(text) = old THEN new ELSE <<Head(text)>>) \o replace(Tail(text), old, new)

\* str.split(): runs of whitespace separate the words, no empty words
RECURSIVE split_run(_, _, _)
split_run(text, cur, acc) ==
  IF text = <<>> THEN (IF cur = <<>> THEN acc ELSE Append(acc, cur))
  ELSE IF Head(text) \in whitespace
    THEN split_run(Tail(text), <<>>, IF cur = <<>> THEN acc ELSE Append(acc, cur))
    ELSE split_run(Tail(text), Append(cur, Head(text)), acc)

split(text) == split_run(text, <<>>, <<>>)

\* str.split(sep): every separator ends a (possibly empty) field
RECURSIVE split_sep_run(_, _, _, _)
split_sep_run(text, sep, cur, acc) ==
  IF text = <<>> THEN Append(acc, cur)
  ELSE IF Head(text) = sep
    THEN split_sep_run(Tail(text), sep, <<>>, Append(acc, cur))
    ELSE split_sep_run(Tail(text), sep, Append(cur, Head(text)), acc)

split_sep(text, sep) == split_sep_run(text, sep, <<>>, <<>>)

\* sep.join(parts)
RECURSIVE join(_, _)
join(sep, parts) ==
  IF parts = <<>> THEN <<>>
  ELSE IF Len(parts) = 1 THEN parts[1]
  ELSE parts[1] \o sep \o join(sep, Tail(parts))

\* ------------------------------------------------------------------------
\* miaqa.py: normalize_answer
\* ------------------------------------------------------------------------
remove_counter(text) ==
  replace(replace(replace(replace(text, NEN, <<>>), SAI, <<>>), NIN, <<>>), NYEON, <<>>)

white_space_fix(text) == join(<<" ">>, split(text))

remove_punc(text) == SelectSeq(text, LAMBDA ch : ch \notin punctuation)

normalize_answer_keeps_case(s) == white_space_fix(remove_counter(remove_punc(s)))

normalize_answer_swapped(s) == remove_counter(white_space_fix(remove_punc(lower(s))))

normalize_answer(s) == white_space_fix(remove_counter(remove_punc(lower(s))))

\* ------------------------------------------------------------------------
\* Numbers: a Python float that is a quotient of small integers is kept as
\* a reduced fraction [num, den]
\* ------------------------------------------------------------------------
RECURSIVE gcd(_, _)
gcd(a, b) == IF b = 0 THEN a ELSE gcd(b, a % b)

Frac(n, d) ==
  IF n = 0 THEN [num |-> 0, den |-> 1]
  ELSE [num |-> n \div gcd(n, d), den |-> d \div gcd(n, d)]

FracMul(x, y) == Frac(x.num * y.num, x.den * y.den)
FracAdd(x, y) == Frac(x.num * y.den + y.num * x.den, x.den * y.den)
FracDiv(x, y) == Frac(x.num * y.den, x.den * y.num)
FracLess(x, y) == x.num * y.den < y.num * x.den

range(s) == {s[i] : i \in DOMAIN s}

\* the pairs (x, y) with x < y: of bools, of the floats xs, of the ints xs
bool_lt == {<<FALSE, TRUE>>}
frac_lt(xs) == {xy \in range(xs) \X range(xs) : FracLess(xy[1], xy[2])}
int_lt(xs) == {xy \in range(xs) \X range(xs) : xy[1] < xy[2]}

\* max(iterable): scans the items, keeping the first of the largest
py_max_first(items, lt) == items[1]

py_max(items, lt) ==
  LET best[i \in 1..Len(items)] ==
        IF i = 1 THEN items[1]
        ELSE IF <<best[i - 1], items[i]>> \in lt THEN items[i] ELSE best[i - 1]
  IN best[Len(items)]

\* collections.Counter: the count of a token in a token list
count(tokens, t) == Cardinality({i \in DOMAIN tokens : tokens[i] = t})

Min(a, b) == IF a <= b THEN a ELSE b

RECURSIVE sum_over(_, _)
sum_over(S, f) ==
  IF S = {} THEN 0
  ELSE LET x == CHOOSE y \in S : TRUE IN f[x] + sum_over(S \ {x}, f)

\* sum((Counter(a) & Counter(b)).values())
counter_and_sum(a, b) ==
  LET keys == {a[i] : i \in DOMAIN a} \cap {b[i] : i \in DOMAIN b}
  IN sum_over(keys, [t \in keys |-> Min(count(a, t), count(b, t))])

\* ------------------------------------------------------------------------
\* miaqa.py: exact_match_score, f1_score
\* ------------------------------------------------------------------------
exact_match_score(prediction, ground_truth) ==
  normalize_answer(prediction) = normalize_answer(ground_truth)

\* lines 42-48, given num_same and the two token counts
f1_of_counts(num_same, num_prediction, num_ground_truth) ==
  LET precision == Frac(num_same, num_prediction)
      recall == Frac(num_same, num_ground_truth)
  IN IF num_same = 0 THEN Frac(0, 1)
     ELSE FracDiv(FracMul(Frac(2, 1), FracMul(precision, recall)), FracAdd(precision, recall))

\* lines 40-41, given the two token lists
f1_of_tokens(prediction_tokens, ground_truth_tokens) ==
  f1_of_counts(counter_and_sum(prediction_tokens, ground_truth_tokens),
               Len(prediction_tokens), Len(ground_truth_tokens))

f1_score(prediction, ground_truth) ==
  f1_of_tokens(split(normalize_answer(prediction)), split(normalize_answer(ground_truth)))

\* ------------------------------------------------------------------------
\* fugashi: Tagger("-Owakati").parse(text) returns the morphemes of the text
\* joined by single spaces.  The morphemes are those of the dictionary; here
\* a run of ASCII letters and digits is one morpheme, and every other
\* character that is not whitespace is a morpheme of its own.
\* ------------------------------------------------------------------------
digits == {"0", "1", "2", "3", "4", "5", "6", "7", "8", "9"}

is_alnum(ch) ==
  \/ ch \in digits
  \/ \E i \in 1..26 : ch = ascii_uppercase[i] \/ ch = ascii_lowercase[i]

RECURSIVE morphemes(_, _, _)
morphemes(text, cur, acc) ==
  LET flushed == IF cur = <<>> THEN acc ELSE Append(acc, cur) IN
  IF text = <<>> THEN flushed
  ELSE IF Head(text) \in whitespace THEN morphemes(Tail(text), <<>>, flushed)
  ELSE IF is_alnum(Head(text)) THEN morphemes(Tail(text), Append(cur, Head(text)), acc)
  ELSE morphemes(Tail(text), <<>>, Append(flushed, <<Head(text)>>))

tagger_parse(text) == join(<<" ">>, morphemes(text, <<>>, <<>>))

\* ------------------------------------------------------------------------
\* miaqa.py: MIAQABase._process_results
\* ------------------------------------------------------------------------
None == 0

\* `if _tagger is None`
tagger_missing_never_cached(t) == TRUE

tagger_missing(t) == t = None

\* the scores of the generated text against the gold answers
score_ret(generated_text, answers) ==
  LET exact_matches == [i \in DOMAIN answers |-> exact_match_score(generated_text, answers[i])]
      f1s == [i \in DOMAIN answers |-> f1_score(generated_text, answers[i])]
  IN [exact_match |-> py_max(exact_matches, bool_lt),
      f1 |-> py_max(f1s, frac_lt(f1s)),
      prediction |-> generated_text]

\* One call of _process_results on a task of language `language`, with the
\* module global _tagger holding `tg` and `made` Taggers constructed so far;
\* tagger_ok says whether Tagger("-Owakati") succeeds if it is called.
process_results(language, tg, made, tagger_ok, example, results) ==
  LET generated_text == results[1]
      answers == example.answers
      construct == language = "ja" /\ tagger_missing(tg)
      tg_after == IF construct /\ tagger_ok THEN made + 1 ELSE tg
      ja_answers == [i \in DOMAIN answers |-> tagger_parse(answers[i])]
      ja_text == tagger_parse(replace(replace(generated_text, NAKAGURO, <<" ">>), TOUTEN, <<",">>))
  IN IF construct /\ ~tagger_ok
       THEN [raised |-> TRUE, tagger |-> tg, made |-> made, attempted |-> TRUE,
             used |-> None, answers |-> answers, ret |-> score_ret(<<>>, <<<<>>>>)]
     ELSE IF language = "ja"
       THEN [raised |-> FALSE, tagger |-> tg_after,
             made |-> IF construct THEN made + 1 ELSE made, attempted |-> construct,
             used |-> tg_after, answers |-> ja_answers, ret |-> score_ret(ja_text, ja_answers)]
     ELSE [raised |-> FALSE, tagger |-> tg, made |-> made, attempted |-> FALSE,
           used |-> None, answers |-> answers, ret |-> score_ret(generated_text, answers)]

\* ------------------------------------------------------------------------
\* miaqa.py: the task classes and their datasets
\* ------------------------------------------------------------------------
Tasks == {"XORQAEn", "XORQAJa", "MKQAEn", "MKQAJa"}

\* the class attribute LANGUAGE
LANGUAGE(task) == IF task \in {"XORQAEn", "MKQAEn"} THEN "en" ELSE "ja"

\* ("no answer", "yes", "no")
placeholders == {<<"n", "o", " ", "a", "n", "s", "w", "e", "r">>, <<"y", "e", "s">>, <<"n", "o">>}

\* Dataset.filter(function): the rows the function accepts, in their order
RECURSIVE dataset_filter(_, _)
dataset_filter(rows, accepts) ==
  IF rows = <<>> THEN <<>>
  ELSE (IF accepts[Head(rows)] THEN <<Head(rows)>> ELSE <<>>) \o dataset_filter(Tail(rows), accepts)

\* `example["answers"][0].lower() not in ("no answer", "yes", "no")`
not_placeholder_case_sensitive(example) == example.answers[1] \notin placeholders

not_placeholder(example) == lower(example.answers[1]) \notin placeholders

get_train_dataset(task, rows) ==
  dataset_filter(rows, [example \in range(rows) |->
    /\ example.lang = LANGUAGE(task)
    /\ ~example.has_eng_answer_only
    /\ not_placeholder(example)])

get_task_dataset(task, rows) ==
  IF task \in {"XORQAEn", "XORQAJa"}
    THEN dataset_filter(rows, [example \in range(rows) |->
           example.lang = LANGUAGE(task) /\ not_placeholder(example)])
    ELSE dataset_filter(rows, [example \in range(rows) |-> not_placeholder(example)])

\* tokenizer.encode(answer, add_special_tokens=False): the tokens of the text,
\* none for the empty text; here the vocabulary has a token for every
\* character
encode(text) == [i \in 1..Len(text) |-> <<"token", text[i]>>]

create_requests(example, context) ==
  LET lengths == [i \in DOMAIN example.answers |-> Len(encode(example.answers[i]))]
      max_generation_length == py_max(lengths, int_lt(lengths))
  IN <<[context |-> context, stop_sequences |-> <<"\n">>,
        max_generation_length |-> max_generation_length]>>

\* ------------------------------------------------------------------------
\* evaluate.py: the values of an example's fields and json.dumps
\* ------------------------------------------------------------------------
Value(type, items) == [type |-> type, items |-> items]

\* json.dumps(value): raises TypeError on a value that is, or holds, an
\* object of a type JSON has no form for
RECURSIVE json_dumps(_)
json_dumps(value) ==
  IF value.type \in {"str", "int", "bool", "NoneType"} THEN "ok"
  ELSE IF value.type = "list"
    THEN (IF \E i \in DOMAIN value.items : json_dumps(value.items[i]) = "TypeError"
            THEN "TypeError" ELSE "ok")
  ELSE "TypeError"

\* `except TypeError:`
except_nothing(raised) == FALSE

except_TypeError(raised) == raised = "TypeError"

\* len(zip(a, b))
zip_len(a, b) == Min(Len(a), Len(b))

\* ------------------------------------------------------------------------
\* evaluate.py: the command line and the worker processes
\* ------------------------------------------------------------------------
digit_value(ch) == CHOOSE d \in 0..9 : <<"0", "1", "2", "3", "4", "5", "6", "7", "8", "9">>[d + 1] = ch

\* int(x) of a decimal literal; ValueError on anything else
RECURSIVE int_run(_, _)
int_run(x, acc) == IF x = <<>> THEN acc ELSE int_run(Tail(x), 10 * acc + digit_value(Head(x)))

int_raises(x) == x = <<>> \/ \E i \in DOMAIN x : x[i] \notin digits

int(x) == int_run(x, 0)

\* the assert of lines 41-43
lengths_not_asserted(task_list, samples_list) == TRUE

lengths_asserted(task_list, samples_list) == Len(task_list) = Len(samples_list)

\* accelerator.is_main_process: the process of index 0
everyone_is_main(p) == TRUE

is_main_process(p) == p = 0

\* accelerator.wait_for_everyone() returns to a process once the barrier it
\* waits at has opened, which is when every process has arrived at it
barrier_never_waits(opened, waiting_for) == TRUE

barrier_open(opened, waiting_for) == opened > waiting_for

metrics_file(task_name) == <<task_name, "_metrics.json">>
predictions_file(task_name) == <<task_name, "_predictions.jsonl">>

\* ------------------------------------------------------------------------
\* State
\* ------------------------------------------------------------------------
VARIABLES
  \* normalisation applied twice
  ns, n1, n2, npc,
  \* a process calling _process_results: the module global _tagger, the
  \* Taggers constructed, the constructor calls, the calls made, the calls on
  \* a Japanese task, the constructor failures, the last call and its outcome
  _tagger, made, attempts, ncalls, jacalls, fails, sc_call, sc_out, spc,
  \* one task run on the coordinating process: the evaluation set with the
  \* model's outputs, the scores so far, the aggregate metrics
  e_set, e_rets, e_metrics, epc,
  \* a task building its datasets: the task class, the rows of the file
  \* being loaded, the dataset returned, and the requests created for one of
  \* its examples
  d_task, d_rows, d_dataset, d_example, d_requests, dpc,
  \* the worker processes running evaluate(): the command line, the number
  \* of processes, and of every process its position, its locals tasks,
  \* num_fewshot_samples and all_metrics and the index of its loop iteration
  args, nprocs, pc, tasks, num_fewshot_samples, all_metrics, idx,
  \* the barrier of accelerator.wait_for_everyone(): the processes that have
  \* arrived, the times it has opened, and the time each process waits for
  arrived, gen, mygen,
  \* what the processes have done: the tasks each constructed and ran, the
  \* barriers each reached, the files written and by whom, the directories
  \* made
  conlog, runlog, reached, writes, dirs,
  \* the coordinating process writing the predictions file of one task
  w_examples, w_predictions, w_i, w_j, new_example, w_lines, wpc

normVars == <<ns, n1, n2, npc>>
scoreVars == <<_tagger, made, attempts, ncalls, jacalls, fails, sc_call, sc_out, spc>>
e2eVars == <<e_set, e_rets, e_metrics, epc>>
dataVars == <<d_task, d_rows, d_dataset, d_example, d_requests, dpc>>
evalVars == <<args, nprocs, pc, tasks, num_fewshot_samples, all_metrics, idx,
              arrived, gen, mygen, conlog, runlog, reached, writes, dirs>>
writeVars == <<w_examples, w_predictions, w_i, w_j, new_example, w_lines, wpc>>
vars == <<normVars, scoreVars, e2eVars, dataVars, evalVars, writeVars>>

\* ------------------------------------------------------------------------
\* Strings of the scenarios
\* ------------------------------------------------------------------------
S_Tokyo == <<"T", "o", "k", "y", "o">>
S_Kyoto == <<"K", "y", "o", "t", "o">>
S_kyoto_dot == <<"k", "y", "o", "t", "o", ".">>
S_New_Tokyo == <<"N", "e", "w", " ", "T", "o", "k", "y", "o">>
S_42nen == <<"4", "2", NEN>>
S_Paris == <<"P", "a", "r", "i", "s">>
S_42_years == <<"4", "2", " ", "y", "e", "a", "r", "s">>
S_New_York == <<"N", "e", "w", " ", "Y", "o", "r", "k">>
S_sp_Kyoto == <<" ", "K", "y", "o", "t", "o">>
S_sp_tokyo == <<" ", "t", "o", "k", "y", "o">>
S_sp_New_Kyoto == <<" ", "N", "e", "w", " ", "K", "y", "o", "t", "o">>
S_sp_42 == <<" ", "4", "2">>
S_sp_paris == <<" ", "p", "a", "r", "i", "s">>
S_sp_London == <<" ", "L", "o", "n", "d", "o", "n">>
S_sp_York == <<" ", "Y", "o", "r", "k">>
S_Tokyo_nakaguro_Kyoto == <<"T", "o", "k", "y", "o", NAKAGURO, "K", "y", "o", "t", "o">>

SeqsOver(S, lo, hi) == UNION {[1..k -> S] : k \in lo..hi}

\* ------------------------------------------------------------------------
\* Idle values of the parts of the state a specification does not use
\* ------------------------------------------------------------------------
NoRet == [exact_match |-> FALSE, f1 |-> Frac(0, 1), prediction |-> <<>>]
NoCall == [language |-> "en", example |-> [answers |-> <<>>], results |-> <<>>]
NoOut == [raised |-> FALSE, tagger |-> None, made |-> 0, attempted |-> FALSE,
          used |-> None, answers |-> <<>>, ret |-> NoRet]
NaN == [num |-> 0, den |-> 0]

EvalIdle ==
  /\ args = [tasks |-> <<>>, num_fewshot_samples |-> <<>>, output_dir |-> FALSE]
  /\ nprocs = 0
  /\ pc = <<>> /\ tasks = <<>> /\ num_fewshot_samples = <<>> /\ all_metrics = <<>>
  /\ idx = <<>> /\ arrived = 0 /\ gen = 0 /\ mygen = <<>>
  /\ conlog = <<>> /\ runlog = <<>> /\ reached = <<>> /\ writes = {} /\ dirs = {}

WriteIdle ==
  /\ w_examples = <<>> /\ w_predictions = <<>> /\ w_i = 0 /\ w_j = 0
  /\ new_example = <<>> /\ w_lines = <<>> /\ wpc = "idle"

NormIdle == ns = <<>> /\ n1 = <<>> /\ n2 = <<>> /\ npc = "idle"

\* import of leia.tasks.miaqa: `_tagger = None`
ScoreStart ==
  /\ _tagger = None
  /\ made = 0 /\ attempts = 0 /\ ncalls = 0 /\ jacalls = 0 /\ fails = 0
  /\ sc_call = NoCall /\ sc_out = NoOut /\ spc = "idle"

E2EIdle ==
  /\ e_set = <<>> /\ e_rets = <<>>
  /\ e_metrics = [exact_match |-> NaN, f1 |-> NaN] /\ epc = "idle"

NoRow == [lang |-> "en", has_eng_answer_only |-> FALSE, answers |-> <<>>]

DataIdle ==
  /\ d_task = "XORQAEn" /\ d_rows = <<>> /\ d_dataset = <<>>
  /\ d_example = NoRow /\ d_requests = <<>> /\ dpc = "idle"

\* ------------------------------------------------------------------------
\* Normalisation applied once and then again to its own result
\* ------------------------------------------------------------------------
NormChars == {"A", "a", "b", " ", ".", NEN}

NormInit ==
  /\ ns \in SeqsOver(NormChars, 0, MaxStrLen)
  /\ n1 = <<>>
  /\ n2 = <<>>
  /\ npc = "start"
  /\ ScoreStart /\ E2EIdle /\ DataIdle /\ EvalIdle /\ WriteIdle

NormalizeOnce ==
  /\ npc = "start"
  /\ n1' = normalize_answer(ns)
  /\ npc' = "once"
  /\ UNCHANGED <<ns, n2, scoreVars, e2eVars, dataVars, evalVars, writeVars>>

NormalizeAgain ==
  /\ npc = "once"
  /\ n2' = normalize_answer(n1)
  /\ npc' = "twice"
  /\ UNCHANGED <<ns, n1, scoreVars, e2eVars, dataVars, evalVars, writeVars>>

NormNext == NormalizeOnce \/ NormalizeAgain

SpecNorm == NormInit /\ [][NormNext]_vars

\* C7: normalize_answer is idempotent: normalising a normalised string
\* leaves it unchanged.
C7_Idempotent == npc = "twice" => n2 = n1

\* a string that lower-casing, the removal of punctuation and the removal of
\* the counters all change has been normalised twice
C7_Witness ==
  /\ npc = "twice"
  /\ ns = <<"A", ".", NEN>>
  /\ n1 = <<"a">>

\* ------------------------------------------------------------------------
\* _process_results applied to one example: the call is drawn at the start
\* ------------------------------------------------------------------------
ScoreAnswers == {S_Tokyo, S_Kyoto, S_kyoto_dot, S_New_Tokyo, S_42nen, <<>>}
ScoreTexts == {S_sp_Kyoto, S_sp_tokyo, S_sp_New_Kyoto, S_sp_42, S_Tokyo_nakaguro_Kyoto, <<>>}
ScoreExamples == {[answers |-> a] : a \in SeqsOver(ScoreAnswers, 1, MaxAnswers)}

\* the effect of one call of _process_results on the state of the process
Call(language, example, results, tagger_ok) ==
  \E out \in {process_results(language, _tagger, made, tagger_ok, example, results)} :
    /\ sc_call' = [language |-> language, example |-> example, results |-> results]
    /\ sc_out' = out
    /\ _tagger' = out.tagger
    /\ made' = out.made
    /\ attempts' = IF out.attempted THEN attempts + 1 ELSE attempts
    /\ fails' = IF out.raised THEN fails + 1 ELSE fails
    /\ jacalls' = IF language = "ja" THEN jacalls + 1 ELSE jacalls
    /\ spc' = IF out.raised THEN "raised" ELSE "returned"
    /\ ncalls' = ncalls + 1

ScoreInit ==
  /\ _tagger = None
  /\ made = 0 /\ attempts = 0 /\ ncalls = 0 /\ jacalls = 0 /\ fails = 0
  /\ sc_call \in [language : {"en", "ja"}, example : ScoreExamples,
                  results : SeqsOver(ScoreTexts, 1, 1)]
  /\ sc_out = NoOut
  /\ spc = "called"
  /\ NormIdle /\ E2EIdle /\ DataIdle /\ EvalIdle /\ WriteIdle

ProcessResults ==
  /\ spc = "called"
  /\ \E tagger_ok \in BOOLEAN :
       Call(sc_call.language, sc_call.example, sc_call.results, tagger_ok)
  /\ UNCHANGED <<normVars, e2eVars, dataVars, evalVars, writeVars>>

ScoreNext == ProcessResults

SpecScore == ScoreInit /\ [][ScoreNext]_vars

\* ------------------------------------------------------------------------
\* A process making a sequence of _process_results calls, on tasks of either
\* language, which share the module global _tagger
\* ------------------------------------------------------------------------
TaggerExamples == {[answers |-> <<S_Tokyo, S_Kyoto>>], [answers |-> <<S_42nen>>],
                   [answers |-> <<S_New_Tokyo>>]}
TaggerTexts == {S_sp_Kyoto, S_Tokyo_nakaguro_Kyoto}

TaggerInit == ScoreStart /\ NormIdle /\ E2EIdle /\ DataIdle /\ EvalIdle /\ WriteIdle

ProcessResultsEn ==
  /\ ncalls < MaxCalls
  /\ \E example \in TaggerExamples, text \in TaggerTexts :
       Call("en", example, <<text>>, TRUE)
  /\ UNCHANGED <<normVars, e2eVars, dataVars, evalVars, writeVars>>

ProcessResultsJa ==
  /\ ncalls < MaxCalls
  /\ \E example \in TaggerExamples, text \in TaggerTexts, tagger_ok \in BOOLEAN :
       Call("ja", example, <<text>>, tagger_ok)
  /\ UNCHANGED <<normVars, e2eVars, dataVars, evalVars, writeVars>>

TaggerNext == ProcessResultsEn \/ ProcessResultsJa

SpecTagger == TaggerInit /\ [][TaggerNext]_vars

\* C5: with several gold answers, exact_match and f1 are each the maximum of
\* the per-answer score over all the gold answers: exact_match is 1 iff the
\* prediction exact-matches some gold answer, whatever its position, and f1
\* is the score of some gold answer and below the score of none.  On an
\* English task the answers and the text are those of the call; on a Japanese
\* task they are their segmentations.
C5_MaxOverAnswers ==
  spc = "returned" =>
    LET gold == sc_out.answers
        text == sc_out.ret.prediction
    IN /\ sc_call.language = "en" =>
            gold = sc_call.example.answers /\ text = sc_call.results[1]
       /\ Len(gold) = Len(sc_call.example.answers)
       /\ sc_out.ret.exact_match = (\E i \in DOMAIN gold : exact_match_score(text, gold[i]))
       /\ \E i \in DOMAIN gold : sc_out.ret.f1 = f1_score(text, gold[i])
       /\ \A i \in DOMAIN gold : ~FracLess(sc_out.ret.f1, f1_score(text, gold[i]))

\* gold ["Tokyo", "Kyoto"] with prediction " Kyoto": the second answer alone
\* matches, and the example scores 1 on both metrics
C5_Witness ==
  /\ spc = "returned"
  /\ sc_call = [language |-> "en", example |-> [answers |-> <<S_Tokyo, S_Kyoto>>],
                results |-> <<S_sp_Kyoto>>]
  /\ sc_out.ret.exact_match = TRUE
  /\ sc_out.ret.f1 = Frac(1, 1)

\* C10: the Tagger is constructed at most once in a process: never before
\* the first call on a Japanese task, on that call if the constructor
\* succeeds, and every later Japanese call uses the instance _tagger holds; a
\* constructor failure is raised by the Japanese call that made it and leaves
\* nothing behind.
C10_TaggerOnce ==
  /\ made <= 1
  /\ jacalls = 0 => (_tagger = None /\ made = 0 /\ attempts = 0)
  /\ (jacalls >= 1 /\ fails = 0) => (made = 1 /\ attempts = 1)
  /\ _tagger # None => (_tagger = 1 /\ made = 1)
  /\ made = 1 => _tagger = 1
  /\ (spc = "returned" /\ sc_call.language = "ja") => (sc_out.used = 1 /\ _tagger = 1)
  /\ spc = "raised" => (sc_call.language = "ja" /\ sc_out.attempted /\ _tagger = None)
  /\ attempts = made + fails

\* three calls on Japanese tasks have returned, after a single construction
C10_Witness ==
  /\ jacalls = MaxCalls
  /\ fails = 0
  /\ made = 1
  /\ spc = "returned"
  /\ sc_call.language = "ja"

\* ------------------------------------------------------------------------
\* One run of an English task on the coordinating process: every example of
\* the evaluation set is scored by _process_results against the text the
\* model generated for it, and the metrics are the means of the scores
\* ------------------------------------------------------------------------
E2EPool == {[example |-> [answers |-> <<S_Paris>>], output |-> S_sp_paris],
            [example |-> [answers |-> <<S_42_years>>], output |-> S_sp_42],
            [example |-> [answers |-> <<S_42nen>>], output |-> S_sp_42],
            [example |-> [answers |-> <<S_Tokyo, S_Kyoto>>], output |-> S_sp_Kyoto],
            [example |-> [answers |-> <<S_Paris>>], output |-> S_sp_London],
            [example |-> [answers |-> <<S_New_York>>], output |-> S_sp_York]}

RECURSIVE frac_sum(_)
frac_sum(xs) == IF xs = <<>> THEN Frac(0, 1) ELSE FracAdd(Head(xs), frac_sum(Tail(xs)))

\* the arithmetic mean of a metric over the scored examples; undefined over none
mean(xs) == IF xs = <<>> THEN NaN ELSE FracDiv(frac_sum(xs), Frac(Len(xs), 1))

aggregate(rets) ==
  [exact_match |-> mean([i \in DOMAIN rets |-> IF rets[i].exact_match THEN Frac(1, 1) ELSE Frac(0, 1)]),
   f1 |-> mean([i \in DOMAIN rets |-> rets[i].f1])]

E2EInit ==
  /\ e_set \in SeqsOver(E2EPool, 0, MaxEval)
  /\ e_rets = <<>>
  /\ e_metrics = [exact_match |-> NaN, f1 |-> NaN]
  /\ epc = "scoring"
  /\ NormIdle /\ ScoreStart /\ DataIdle /\ EvalIdle /\ WriteIdle

ScoreExample ==
  /\ epc = "scoring"
  /\ Len(e_rets) < Len(e_set)
  /\ LET item == e_set[Len(e_rets) + 1] IN
       \E out \in {process_results("en", None, 0, TRUE, item.example, <<item.output>>)} :
         e_rets' = Append(e_rets, out.ret)
  /\ UNCHANGED <<e_set, e_metrics, epc, normVars, scoreVars, dataVars, evalVars, writeVars>>

Aggregate ==
  /\ epc = "scoring"
  /\ Len(e_rets) = Len(e_set)
  /\ e_metrics' = aggregate(e_rets)
  /\ epc' = "done"
  /\ UNCHANGED <<e_set, e_rets, normVars, scoreVars, dataVars, evalVars, writeVars>>

E2ENext == ScoreExample \/ Aggregate

SpecE2E == E2EInit /\ [][E2ENext]_vars

ParisAnd42Years == <<[example |-> [answers |-> <<S_Paris>>], output |-> S_sp_paris],
                     [example |-> [answers |-> <<S_42_years>>], output |-> S_sp_42]>>

\* C6 as stated: gold ["Paris"] and ["42 years"] with outputs " paris" and
\* " 42" score exact_match 1 and f1 1 on both examples, and 1.0 on both
\* aggregates.
C6_AsStated ==
  (epc = "done" /\ e_set = ParisAnd42Years) =>
    /\ e_rets[1].exact_match /\ e_rets[1].f1 = Frac(1, 1)
    /\ e_rets[2].exact_match /\ e_rets[2].f1 = Frac(1, 1)
    /\ e_metrics = [exact_match |-> Frac(1, 1), f1 |-> Frac(1, 1)]

\* C6 amended: example 1 scores exact_match 1 and f1 1; example 2 scores
\* exact_match 0 and f1 2/3, because normalize_answer removes the characters
\* U+5E74, U+6B73, U+4EBA and U+B144 and not the word "years"; the aggregates
\* are exact_match 1/2 and f1 5/6.
C6_Amended ==
  (epc = "done" /\ e_set = ParisAnd42Years) =>
    /\ e_rets[1].exact_match /\ e_rets[1].f1 = Frac(1, 1)
    /\ ~e_rets[2].exact_match /\ e_rets[2].f1 = Frac(2, 3)
    /\ e_rets[2].prediction = S_sp_42
    /\ normalize_answer(S_42_years) = S_42_years
    /\ e_metrics = [exact_match |-> Frac(1, 2), f1 |-> Frac(5, 6)]

\* the run over the two examples of the scenario has been aggregated
C6_Witness ==
  /\ epc = "done"
  /\ e_set = ParisAnd42Years
  /\ Len(e_rets) = 2

\* ------------------------------------------------------------------------
\* A task loading its few-shot pool or its evaluation set from the rows of a
\* data file, and creating the requests of an example of the evaluation set
\* ------------------------------------------------------------------------
S_yes == <<"y", "e", "s">>
S_No_answer == <<"N", "o", " ", "a", "n", "s", "w", "e", "r">>
S_NO == <<"N", "O">>
S_Berlin == <<"B", "e", "r", "l", "i", "n">>

Row(lang, has_eng_answer_only, answers) ==
  [lang |-> lang, has_eng_answer_only |-> has_eng_answer_only, answers |-> answers]

DataRows == {Row("en", FALSE, <<S_yes>>), Row("en", FALSE, <<S_No_answer>>),
             Row("en", FALSE, <<S_Berlin>>), Row("ja", FALSE, <<S_Berlin>>),
             Row("en", TRUE, <<S_Berlin>>), Row("en", FALSE, <<S_NO, S_Berlin>>),
             Row("ja", FALSE, <<S_Berlin, S_yes>>), Row("ja", TRUE, <<S_yes>>),
             Row("ja", FALSE, <<<<>>>>)}

DataInit ==
  /\ d_task \in Tasks
  /\ d_rows \in SeqsOver(DataRows, 0, MaxRows)
  /\ d_dataset = <<>>
  /\ d_example = NoRow
  /\ d_requests = <<>>
  /\ dpc = "loading"
  /\ NormIdle /\ ScoreStart /\ E2EIdle /\ EvalIdle /\ WriteIdle

GetTrainDataset ==
  /\ dpc = "loading"
  /\ d_dataset' = get_train_dataset(d_task, d_rows)
  /\ dpc' = "train"
  /\ UNCHANGED <<d_task, d_rows, d_example, d_requests, normVars, scoreVars, e2eVars, evalVars, writeVars>>

GetTaskDataset ==
  /\ dpc = "loading"
  /\ d_dataset' = get_task_dataset(d_task, d_rows)
  /\ dpc' = "task"
  /\ UNCHANGED <<d_task, d_rows, d_example, d_requests, normVars, scoreVars, e2eVars, evalVars, writeVars>>

CreateRequests ==
  /\ dpc = "task"
  /\ \E i \in DOMAIN d_dataset :
       /\ d_example' = d_dataset[i]
       /\ d_requests' = create_requests(d_dataset[i], <<"Q">>)
  /\ dpc' = "requests"
  /\ UNCHANGED <<d_task, d_rows, d_dataset, normVars, scoreVars, e2eVars, evalVars, writeVars>>

DataNext == GetTrainDataset \/ GetTaskDataset \/ CreateRequests

SpecData == DataInit /\ [][DataNext]_vars

\* a first gold answer that is "no answer", "yes" or "no" in some casing
IsPlaceholder(answer) ==
  \E p \in placeholders :
    /\ Len(answer) = Len(p)
    /\ \A i \in 1..Len(p) : lower_char(answer[i]) = p[i]

\* the restrictions of a task on language and provenance
Restricted(task, which, row) ==
  \/ which = "train" /\ (row.lang # LANGUAGE(task) \/ row.has_eng_answer_only)
  \/ which = "task" /\ task \in {"XORQAEn", "XORQAJa"} /\ row.lang # LANGUAGE(task)

\* C8: for every task class, neither the few-shot pool nor the evaluation set
\* holds an example whose first gold answer is, in any casing, "no answer",
\* "yes" or "no", and the examples it holds are exactly the other rows that
\* pass the task's language and provenance restrictions, in their order.
C8_Filter ==
  dpc \in {"train", "task"} =>
    LET kept == {i \in DOMAIN d_rows :
                   /\ ~IsPlaceholder(d_rows[i].answers[1])
                   /\ ~Restricted(d_task, dpc, d_rows[i])}
        nth(k) == CHOOSE i \in kept : Cardinality({j \in kept : j <= i}) = k
    IN /\ \A k \in DOMAIN d_dataset : ~IsPlaceholder(d_dataset[k].answers[1])
       /\ Len(d_dataset) = Cardinality(kept)
       /\ \A k \in DOMAIN d_dataset : d_dataset[k] = d_rows[nth(k)]

\* a file of the answers ["yes"], ["No answer"], ["Berlin"] in the task's
\* language is filtered to the "Berlin" row alone
C8_Witness ==
  /\ dpc = "task"
  /\ d_rows = <<Row("en", FALSE, <<S_yes>>), Row("en", FALSE, <<S_No_answer>>),
                Row("en", FALSE, <<S_Berlin>>)>>
  /\ d_dataset = <<Row("en", FALSE, <<S_Berlin>>)>>

\* C9 as stated: the requests of a filtered example are one request, whose
\* max_generation_length is the largest token count of its gold answers and
\* is at least 1, and whose stop sequences contain the newline.
C9_AsStated ==
  dpc = "requests" =>
    /\ Len(d_requests) = 1
    /\ d_requests[1].max_generation_length >= 1
    /\ \A i \in DOMAIN d_example.answers :
         d_requests[1].max_generation_length >= Len(encode(d_example.answers[i]))
    /\ \E i \in DOMAIN d_example.answers :
         d_requests[1].max_generation_length = Len(encode(d_example.answers[i]))
    /\ \E i \in DOMAIN d_requests[1].stop_sequences : d_requests[1].stop_sequences[i] = "\n"

\* ------------------------------------------------------------------------
\* The coordinating process writing the predictions file of a task from the
\* examples and predictions of its TaskResult (evaluate.py, lines 69-80)
\* ------------------------------------------------------------------------
FieldKeys == <<"id", "answers", "image", "extra">>
FieldValues == {Value("str", <<>>), Value("bytes", <<>>),
                Value("list", <<Value("str", <<>>), Value("bytes", <<>>)>>)}

WriteInit ==
  /\ w_examples \in SeqsOver({[j \in 1..Len(v) |-> [key |-> FieldKeys[j], value |-> v[j]]] :
                                v \in SeqsOver(FieldValues, 0, MaxFields)}, 0, MaxExamples)
  /\ \E short \in {0, 1} :
       /\ short <= Len(w_examples)
       /\ w_predictions = [i \in 1..(Len(w_examples) - short) |-> <<"p", i>>]
  /\ w_i = 0 /\ w_j = 0
  /\ new_example = <<>>
  /\ w_lines = <<>>
  /\ wpc = "pairs"
  /\ NormIdle /\ ScoreStart /\ E2EIdle /\ DataIdle /\ EvalIdle

\* `for example, prediction in zip(...)`: the next pair; `new_example = {}`
NextPair ==
  /\ wpc = "pairs"
  /\ w_i < zip_len(w_examples, w_predictions)
  /\ w_i' = w_i + 1
  /\ w_j' = 0
  /\ new_example' = <<>>
  /\ wpc' = "fields"
  /\ UNCHANGED <<w_examples, w_predictions, w_lines>>
  /\ UNCHANGED <<normVars, scoreVars, e2eVars, dataVars, evalVars>>

\* `for key, value in example.items()`: one field whose value json.dumps takes
FieldKept ==
  /\ wpc = "fields"
  /\ w_j < Len(w_examples[w_i])
  /\ json_dumps(w_examples[w_i][w_j + 1].value) = "ok"
  /\ new_example' = Append(new_example, w_examples[w_i][w_j + 1])
  /\ w_j' = w_j + 1
  /\ UNCHANGED <<w_examples, w_predictions, w_i, w_lines, wpc>>
  /\ UNCHANGED <<normVars, scoreVars, e2eVars, dataVars, evalVars>>

\* one field on whose value json.dumps raises: `continue` if the handler
\* catches what was raised, and the end of the write if it does not
FieldRaised ==
  /\ wpc = "fields"
  /\ w_j < Len(w_examples[w_i])
  /\ json_dumps(w_examples[w_i][w_j + 1].value) # "ok"
  /\ IF except_TypeError(json_dumps(w_examples[w_i][w_j + 1].value))
       THEN w_j' = w_j + 1 /\ wpc' = wpc
       ELSE w_j' = w_j /\ wpc' = "aborted"
  /\ UNCHANGED <<w_examples, w_predictions, w_i, new_example, w_lines>>
  /\ UNCHANGED <<normVars, scoreVars, e2eVars, dataVars, evalVars>>

\* `f.write(...)`: the line of the pair
WriteLine ==
  /\ wpc = "fields"
  /\ w_j = Len(w_examples[w_i])
  /\ w_lines' = Append(w_lines, [example |-> new_example, prediction |-> w_predictions[w_i]])
  /\ wpc' = "pairs"
  /\ UNCHANGED <<w_examples, w_predictions, w_i, w_j, new_example>>
  /\ UNCHANGED <<normVars, scoreVars, e2eVars, dataVars, evalVars>>

\* the end of the `with` block
CloseFile ==
  /\ wpc = "pairs"
  /\ w_i = zip_len(w_examples, w_predictions)
  /\ wpc' = "closed"
  /\ UNCHANGED <<w_examples, w_predictions, w_i, w_j, new_example, w_lines>>
  /\ UNCHANGED <<normVars, scoreVars, e2eVars, dataVars, evalVars>>

WriteNext == NextPair \/ FieldKept \/ FieldRaised \/ WriteLine \/ CloseFile

SpecWrite == WriteInit /\ [][WriteNext]_vars

\* a value with no bytes object in it
Portable(value) ==
  /\ value.type # "bytes"
  /\ \A i \in DOMAIN value.items : value.items[i].type # "bytes"

\* the fields of a line's record are the portable fields of the example, in
\* the example's order
RecordOf(line, example) ==
  LET portable == {j \in DOMAIN example : Portable(example[j].value)} IN
    /\ Len(line.example) = Cardinality(portable)
    /\ \A j \in portable :
         line.example[Cardinality({k \in portable : k <= j})] = example[j]

\* C4: the predictions file gets one line for every (example, prediction)
\* pair, in order; a field whose value cannot be serialized is left out of
\* its line and every other field is kept; and no such field ends the write:
\* the write is never aborted, and once the file is closed it has all lines.
C4_PredictionLines ==
  /\ wpc # "aborted"
  /\ Len(w_lines) <= zip_len(w_examples, w_predictions)
  /\ \A i \in DOMAIN w_lines :
       /\ w_lines[i].prediction = w_predictions[i]
       /\ RecordOf(w_lines[i], w_examples[i])
  /\ wpc = "closed" => Len(w_lines) = zip_len(w_examples, w_predictions)

\* a file is closed whose first example had a field that cannot be
\* serialized followed by one that can, and whose second example was written
C4_Witness ==
  /\ wpc = "closed"
  /\ Len(w_lines) = 2
  /\ Len(w_examples[1]) = 2
  /\ w_examples[1][1].value.type = "bytes"
  /\ w_examples[1][2].value.type = "str"
  /\ Len(w_lines[1].example) = 1
  /\ w_lines[1].example[1].key = "answers"

\* ------------------------------------------------------------------------
\* evaluate() run by every worker process on the same command line
\* ------------------------------------------------------------------------
TaskNames == {<<"a">>, <<"b">>}
SampleWords == {<<"0">>, <<"1", "2">>, <<>>}

Procs == 0..(nprocs - 1)

EvalInit ==
  /\ \E names \in SeqsOver(TaskNames, 1, MaxTasks), words \in SeqsOver(SampleWords, 1, MaxTasks),
        output_dir \in BOOLEAN :
       args = [tasks |-> join(<<",">>, names), num_fewshot_samples |-> join(<<",">>, words),
               output_dir |-> output_dir]
  /\ nprocs \in 1..MaxProcs
  /\ pc = [p \in Procs |-> "start"]
  /\ tasks = [p \in Procs |-> <<>>]
  /\ num_fewshot_samples = [p \in Procs |-> <<>>]
  /\ all_metrics = [p \in Procs |-> {}]
  /\ idx = [p \in Procs |-> 1]
  /\ arrived = 0 /\ gen = 0
  /\ mygen = [p \in Procs |-> 0]
  /\ conlog = [p \in Procs |-> <<>>]
  /\ runlog = [p \in Procs |-> <<>>]
  /\ reached = [p \in Procs |-> 0]
  /\ writes = {} /\ dirs = {}
  /\ NormIdle /\ ScoreStart /\ E2EIdle /\ DataIdle /\ WriteIdle

\* lines 39-48: the two lists are split and checked, the output directory made
Setup(p) ==
  /\ pc[p] = "start"
  /\ LET task_list == split_sep(args.tasks, ",")
         words == split_sep(args.num_fewshot_samples, ",")
     IN IF \E i \in DOMAIN words : int_raises(words[i])
          THEN /\ pc' = [pc EXCEPT ![p] = "ValueError"]
               /\ UNCHANGED <<tasks, num_fewshot_samples, dirs>>
        ELSE IF ~lengths_asserted(task_list, words)
          THEN /\ pc' = [pc EXCEPT ![p] = "AssertionError"]
               /\ tasks' = [tasks EXCEPT ![p] = task_list]
               /\ num_fewshot_samples' = [num_fewshot_samples EXCEPT ![p] = [i \in DOMAIN words |-> int(words[i])]]
               /\ UNCHANGED dirs
        ELSE /\ pc' = [pc EXCEPT ![p] = "loop"]
             /\ tasks' = [tasks EXCEPT ![p] = task_list]
             /\ num_fewshot_samples' = [num_fewshot_samples EXCEPT ![p] = [i \in DOMAIN words |-> int(words[i])]]
             /\ dirs' = IF args.output_dir THEN dirs \cup {"output_dir"} ELSE dirs
  /\ UNCHANGED <<args, nprocs, all_metrics, idx, arrived, gen, mygen, conlog, runlog, reached, writes>>
  /\ UNCHANGED <<normVars, scoreVars, e2eVars, dataVars, writeVars>>

\* lines 49-59: the next pair of zip(tasks, num_fewshot_samples); the task is
\* looked up and constructed
Construct(p) ==
  /\ pc[p] = "loop"
  /\ idx[p] <= zip_len(tasks[p], num_fewshot_samples[p])
  /\ conlog' = [conlog EXCEPT ![p] = Append(@, tasks[p][idx[p]])]
  /\ pc' = [pc EXCEPT ![p] = "constructed"]
  /\ UNCHANGED <<args, nprocs, tasks, num_fewshot_samples, all_metrics, idx, arrived, gen,
                 mygen, runlog, reached, writes, dirs>>
  /\ UNCHANGED <<normVars, scoreVars, e2eVars, dataVars, writeVars>>

\* line 60: task.run() returns
Run(p) ==
  /\ pc[p] = "constructed"
  /\ runlog' = [runlog EXCEPT ![p] = Append(@, tasks[p][idx[p]])]
  /\ pc' = [pc EXCEPT ![p] = "ran"]
  /\ UNCHANGED <<args, nprocs, tasks, num_fewshot_samples, all_metrics, idx, arrived, gen,
                 mygen, conlog, reached, writes, dirs>>
  /\ UNCHANGED <<normVars, scoreVars, e2eVars, dataVars, writeVars>>

\* lines 61-82: the main process prints the metrics, writes the two files of
\* the task if there is an output directory, and keeps the metrics
Report(p) ==
  /\ pc[p] = "ran"
  /\ LET task_name == tasks[p][idx[p]] IN
       IF is_main_process(p)
         THEN /\ writes' = IF args.output_dir
                             THEN writes \cup {[proc |-> p, file |-> metrics_file(task_name)],
                                               [proc |-> p, file |-> predictions_file(task_name)]}
                             ELSE writes
              /\ all_metrics' = [all_metrics EXCEPT ![p] = @ \cup {task_name}]
         ELSE UNCHANGED <<writes, all_metrics>>
  /\ pc' = [pc EXCEPT ![p] = "reported"]
  /\ UNCHANGED <<args, nprocs, tasks, num_fewshot_samples, idx, arrived, gen, mygen, conlog,
                 runlog, reached, dirs>>
  /\ UNCHANGED <<normVars, scoreVars, e2eVars, dataVars, writeVars>>

\* line 84: the process arrives at the barrier; the last to arrive opens it
WaitForEveryone(p) ==
  /\ pc[p] = "reported"
  /\ mygen' = [mygen EXCEPT ![p] = gen]
  /\ reached' = [reached EXCEPT ![p] = @ + 1]
  /\ IF arrived + 1 = nprocs
       THEN arrived' = 0 /\ gen' = gen + 1
       ELSE arrived' = arrived + 1 /\ gen' = gen
  /\ pc' = [pc EXCEPT ![p] = "waiting"]
  /\ UNCHANGED <<args, nprocs, tasks, num_fewshot_samples, all_metrics, idx, conlog, runlog,
                 writes, dirs>>
  /\ UNCHANGED <<normVars, scoreVars, e2eVars, dataVars, writeVars>>

\* line 84: wait_for_everyone() returns and the loop goes on
Proceed(p) ==
  /\ pc[p] = "waiting"
  /\ barrier_open(gen, mygen[p])
  /\ idx' = [idx EXCEPT ![p] = @ + 1]
  /\ pc' = [pc EXCEPT ![p] = "loop"]
  /\ UNCHANGED <<args, nprocs, tasks, num_fewshot_samples, all_metrics, arrived, gen, mygen,
                 conlog, runlog, reached, writes, dirs>>
  /\ UNCHANGED <<normVars, scoreVars, e2eVars, dataVars, writeVars>>

\* lines 86-89: the loop is over and evaluate() returns
Return(p) ==
  /\ pc[p] = "loop"
  /\ idx[p] > zip_len(tasks[p], num_fewshot_samples[p])
  /\ pc' = [pc EXCEPT ![p] = "returned"]
  /\ UNCHANGED <<args, nprocs, tasks, num_fewshot_samples, all_metrics, idx, arrived, gen,
                 mygen, conlog, runlog, reached, writes, dirs>>
  /\ UNCHANGED <<normVars, scoreVars, e2eVars, dataVars, writeVars>>

EvalNext ==
  \/ \E p \in Procs : Setup(p)
  \/ \E p \in Procs : Construct(p)
  \/ \E p \in Procs : Run(p)
  \/ \E p \in Procs : Report(p)
  \/ \E p \in Procs : WaitForEveryone(p)
  \/ \E p \in Procs : Proceed(p)
  \/ \E p \in Procs : Return(p)

SpecEval == EvalInit /\ [][EvalNext]_vars

IsPrefix(s, t) == Len(s) <= Len(t) /\ \A i \in DOMAIN s : s[i] = t[i]

\* C1: no worker starts task N+1 until every worker has finished task.run()
\* for task N and has reached the barrier of task N, and every worker
\* constructs and runs the tasks in the order of the task list.
C1_TasksInLockstep ==
  \A p \in Procs :
    /\ IsPrefix(conlog[p], tasks[p])
    /\ IsPrefix(runlog[p], conlog[p])
    /\ Len(conlog[p]) <= Len(runlog[p]) + 1
    /\ \A q \in Procs :
         Len(conlog[p]) >= 1 =>
           /\ Len(runlog[q]) >= Len(conlog[p]) - 1
           /\ reached[q] >= Len(conlog[p]) - 1

\* two workers: one has started the second task, and the other, having
\* passed the barrier of the first, has not started it yet
C1_Witness ==
  /\ nprocs >= 2
  /\ \E p, q \in Procs :
       /\ Len(conlog[p]) = 2
       /\ Len(conlog[q]) = 1
       /\ reached[q] = 1
       /\ pc[q] \in {"waiting", "loop"}

\* C2: only the main process writes a metrics file or a predictions file, so
\* no file is written by two processes.
C2_OnlyMainWrites ==
  /\ \A w \in writes : w.proc = 0
  /\ \A w1, w2 \in writes : w1.file = w2.file => w1.proc = w2.proc
  /\ \A p \in Procs : p # 0 => all_metrics[p] = {}

\* with two workers and an output directory, both have run a task and
\* reported, and the files of the task are written
C2_Witness ==
  /\ nprocs >= 2
  /\ args.output_dir
  /\ writes # {}
  /\ \A p \in Procs : pc[p] \in {"reported", "waiting"}

\* the number of fields of a comma-separated list
NumFields(text) == Cardinality({i \in DOMAIN text : text[i] = ","}) + 1

\* C3: when the task list and the few-shot-count list differ in length, every
\* process that gets past the start of evaluate() raises an error, and no
\* task is constructed or run and no file is written; the error is the
\* AssertionError when every count is an integer.
C3_LengthMismatchIsFatal ==
  NumFields(args.tasks) # NumFields(args.num_fewshot_samples) =>
    /\ \A p \in Procs :
         /\ pc[p] \in {"start", "ValueError", "AssertionError"}
         /\ conlog[p] = <<>> /\ runlog[p] = <<>> /\ all_metrics[p] = {}
         /\ (pc[p] = "ValueError") =
              (pc[p] # "start" /\ \E w \in range(split_sep(args.num_fewshot_samples, ",")) : w = <<>>)
    /\ writes = {}
    /\ dirs = {}

\* tasks "a,b" with few-shot list "0": every process has raised the
\* AssertionError
C3_Witness ==
  /\ args.tasks = <<"a", ",", "b">>
  /\ args.num_fewshot_samples = <<"0">>
  /\ nprocs >= 2
  /\ \A p \in Procs : pc[p] = "AssertionError"

====
